---- MODULE Spec2Model ----
(***************************************************************************)
(* Model of the ESG validation engine: src/src/rules.py (iqr_bounds,       *)
(* yoy_change, safe_div) and src/src/validation.py (compute_intensities,   *)
(* base_checks, run_validation).                                           *)
(*                                                                         *)
(* Representation.                                                         *)
(*  - A table cell is <<>> when it is NaN/missing and <<v>> when it holds  *)
(*    the number v.  A table row is a record whose DOMAIN is the set of    *)
(*    columns of the DataFrame, so "c in row.index" is c \in DOMAIN row.   *)
(*  - Floats are modelled by exact arithmetic.  An intensity n/d is kept   *)
(*    as the integer Scale*n/d, where every non-zero floor area of the     *)
(*    input domain divides Scale.  Peer bounds are kept multiplied by 8    *)
(*    (quantiles at n-1 quarters, k = 3/2), a year-over-year change is the *)
(*    fraction <<numerator, denominator>> with denominator > 0.            *)
(*  - A string built by an f-string is the tuple of its template name and  *)
(*    its arguments; the empty string is the empty tuple.  Reason codes    *)
(*    are the strings of the code.                                         *)
(*  - The pass-through columns asset_name, country and asset_type are      *)
(*    copied by run_validation and read by no check; they are left out.    *)
(*  - Input tables are non-empty.                                          *)
(***************************************************************************)
EXTENDS Integers, Sequences, FiniteSets, TLC

VARIABLES df, bounds, idx, mi, results, pc

vars == <<df, bounds, idx, mi, results, pc>>

----------------------------------------------------------------------------
(* Cells and small helpers *)

NaN == <<>>

isna(x) == x = NaN

Num(v) == <<v>>

Val(x) == x[1]

Abs(n) == IF n < 0 THEN -n ELSE n

Range(s) == {s[i] : i \in DOMAIN s}

\* row.get(c, np.nan)
Get(row, c) == IF c \in DOMAIN row THEN row[c] ELSE NaN

\* float equality: NaN is equal to nothing, itself included
FloatEq(a, b) == ~isna(a) /\ ~isna(b) /\ a = b

----------------------------------------------------------------------------
(* src/src/validation.py: METRICS *)

METRICS ==
  << [metric |-> "energy_kwh", intensity_name |-> "energy_kwh_per_m2"],
     [metric |-> "ghg_tco2e",  intensity_name |-> "ghg_kgco2e_per_m2"],
     [metric |-> "water_m3",   intensity_name |-> "water_m3_per_m2"] >>

IntensityNames == {METRICS[i].intensity_name : i \in DOMAIN METRICS}

\* inten_col.upper()
upper(inten_col) ==
  CASE inten_col = "energy_kwh_per_m2" -> "ENERGY_KWH_PER_M2"
    [] inten_col = "ghg_kgco2e_per_m2" -> "GHG_KGCO2E_PER_M2"
    [] inten_col = "water_m3_per_m2"   -> "WATER_M3_PER_M2"

\* tonnes to kilograms, compute_intensities
GHG_UNIT_SCALE == 1000

\* iqr_bounds: the least number of non-null points
MIN_POINTS == 8

----------------------------------------------------------------------------
(* Input domain *)

\* largest floor area of the input tables
MaxArea == 2

\* largest number of single-row peer assets in a portfolio table
MaxPeers == 9

RECURSIVE Factorial(_)
Factorial(n) == IF n <= 1 THEN 1 ELSE n * Factorial(n - 1)

\* every floor area 1..MaxArea (and its negative) divides Scale
Scale == Factorial(MaxArea)

----------------------------------------------------------------------------
(* src/src/rules.py *)

\* safe_div(n, d): the quotient in units of 1/Scale
safe_div(n, d) ==
  IF isna(n) \/ isna(d) \/ Val(d) = 0
  THEN NaN
  ELSE Num((Val(n) * Scale) \div Val(d))

\* yoy_change(curr, prev): the fraction (curr - prev) / |prev|
yoy_change(curr, prev) ==
  IF isna(curr) \/ isna(prev) \/ Val(prev) = 0
  THEN NaN
  ELSE <<Val(curr) - Val(prev), Abs(Val(prev))>>

\* series.dropna()
dropna(series) == SelectSeq(series, LAMBDA x : ~isna(x))

RECURSIVE InsertInt(_, _)
InsertInt(s, v) ==
  IF s = <<>> THEN <<v>>
  ELSE IF v < Head(s) THEN <<v>> \o s
  ELSE <<Head(s)>> \o InsertInt(Tail(s), v)

RECURSIVE SortInts(_)
SortInts(s) == IF s = <<>> THEN <<>> ELSE InsertInt(SortInts(Tail(s)), Head(s))

\* 4 * s.quantile(num/4), linear interpolation between the order statistics
\* at position (n-1)*num/4; s is sorted and non-empty
Quantile4(s, num) ==
  LET pos4 == (Len(s) - 1) * num
      lo   == pos4 \div 4
      f4   == pos4 % 4
  IN  IF f4 = 0
      THEN 4 * s[lo + 1]
      ELSE 4 * s[lo + 1] + f4 * (s[lo + 2] - s[lo + 1])

\* Fault seeded for C5: iqr_bounds asking for 7 points instead of 8.
iqr_bounds_SevenPoints(series) ==
  LET s == SortInts([i \in DOMAIN dropna(series) |-> Val(dropna(series)[i])])
  IN  IF Len(s) < MIN_POINTS - 1
      THEN <<NaN, NaN>>
      ELSE LET q1  == Quantile4(s, 1)
               q3  == Quantile4(s, 3)
               iqr == q3 - q1
           IN  <<Num(2 * q1 - 3 * iqr), Num(2 * q3 + 3 * iqr)>>

\* iqr_bounds(series, k = 1.5): (lower, upper), each multiplied by 8
iqr_bounds(series) ==
  LET s == SortInts([i \in DOMAIN dropna(series) |-> Val(dropna(series)[i])])
  IN  IF Len(s) < MIN_POINTS
      THEN <<NaN, NaN>>
      ELSE LET q1  == Quantile4(s, 1)
               q3  == Quantile4(s, 3)
               iqr == q3 - q1
           IN  <<Num(2 * q1 - 3 * iqr), Num(2 * q3 + 3 * iqr)>>

----------------------------------------------------------------------------
(* src/src/validation.py: compute_intensities *)

IntensityInputs == {"floor_area_m2", "energy_kwh", "ghg_tco2e", "water_m3"}

Times(x, c) == IF isna(x) THEN NaN ELSE Num(Val(x) * c)

RowIntensities(r) ==
  [c \in DOMAIN r \cup IntensityNames |->
     CASE c = "energy_kwh_per_m2" -> safe_div(r["energy_kwh"], r["floor_area_m2"])
       [] c = "ghg_kgco2e_per_m2" ->
            safe_div(Times(r["ghg_tco2e"], GHG_UNIT_SCALE), r["floor_area_m2"])
       [] c = "water_m3_per_m2"   -> safe_div(r["water_m3"], r["floor_area_m2"])
       [] OTHER -> r[c]]

compute_intensities(t) == [i \in DOMAIN t |-> RowIntensities(t[i])]

----------------------------------------------------------------------------
(* src/src/validation.py: base_checks *)

required == <<"asset_id", "year", "floor_area_m2", "energy_kwh", "ghg_tco2e", "water_m3">>

nonNegative == <<"floor_area_m2", "energy_kwh", "ghg_tco2e", "water_m3">>

Triple(s, c, e) == [status |-> s, reason_code |-> c, explanation |-> e]

\* (None, None, None)
NoIssue == Triple("None", "None", <<"None">>)

missing(row) == SelectSeq(required, LAMBDA c : c \notin DOMAIN row \/ isna(row[c]))

negative(row) == SelectSeq(nonNegative, LAMBDA c : ~isna(row[c]) /\ Val(row[c]) < 0)

\* Fault seeded for C6: base_checks without the GHG-with-zero-energy check.
base_checks_NoGhgLogic(row) ==
  IF missing(row) # <<>>
  THEN Triple("INVALID", "DQ_MISSING_FIELDS", <<"Missing required fields">> \o missing(row))
  ELSE IF negative(row) # <<>>
  THEN Triple("INVALID", "DQ_NEGATIVE_VALUE",
              <<"is negative", Head(negative(row)), Val(row[Head(negative(row))])>>)
  ELSE IF Val(row["energy_kwh"]) > 0 /\ Val(row["ghg_tco2e"]) = 0
  THEN Triple("FLAGGED", "LOGIC_ZERO_GHG_WITH_ENERGY", <<"Energy > 0 while GHG is 0">>)
  ELSE IF Val(row["floor_area_m2"]) <= 0
  THEN Triple("INVALID", "DQ_INVALID_FLOOR_AREA",
              <<"floor_area_m2 must be > 0", Val(row["floor_area_m2"])>>)
  ELSE NoIssue

base_checks(row) ==
  IF missing(row) # <<>>
  THEN Triple("INVALID", "DQ_MISSING_FIELDS", <<"Missing required fields">> \o missing(row))
  ELSE IF negative(row) # <<>>
  THEN Triple("INVALID", "DQ_NEGATIVE_VALUE",
              <<"is negative", Head(negative(row)), Val(row[Head(negative(row))])>>)
  ELSE IF Val(row["energy_kwh"]) = 0 /\ Val(row["ghg_tco2e"]) > 0
  THEN Triple("FLAGGED", "LOGIC_GHG_WITH_ZERO_ENERGY", <<"GHG > 0 while energy is 0">>)
  ELSE IF Val(row["energy_kwh"]) > 0 /\ Val(row["ghg_tco2e"]) = 0
  THEN Triple("FLAGGED", "LOGIC_ZERO_GHG_WITH_ENERGY", <<"Energy > 0 while GHG is 0">>)
  ELSE IF Val(row["floor_area_m2"]) <= 0
  THEN Triple("INVALID", "DQ_INVALID_FLOOR_AREA",
              <<"floor_area_m2 must be > 0", Val(row["floor_area_m2"])>>)
  ELSE NoIssue

----------------------------------------------------------------------------
(* src/src/validation.py: run_validation, the sort and the peer bounds *)

SortKeys == {"asset_id", "year"}

\* ascending order of one sort key, NaN last
KeyLess(a, b) == ~isna(a) /\ (isna(b) \/ Val(a) < Val(b))

RowLess(r1, r2) ==
  \/ KeyLess(r1["asset_id"], r2["asset_id"])
  \/ /\ r1["asset_id"] = r2["asset_id"]
     /\ KeyLess(r1["year"], r2["year"])

RECURSIVE InsertRow(_, _)
InsertRow(s, r) ==
  IF s = <<>> THEN <<r>>
  ELSE IF RowLess(r, Head(s)) THEN <<r>> \o s
  ELSE <<Head(s)>> \o InsertRow(Tail(s), r)

\* df.sort_values(["asset_id", "year"]).reset_index(drop=True): stable
RECURSIVE sort_values(_)
sort_values(t) ==
  IF t = <<>> THEN <<>>
  ELSE InsertRow(sort_values(SubSeq(t, 1, Len(t) - 1)), t[Len(t)])

\* the keys of df.groupby("year"): rows with a NaN year are in no group
YearGroups(t) == {Val(t[i]["year"]) : i \in {j \in DOMAIN t : ~isna(t[j]["year"])}}

YearGroup(t, yr) == SelectSeq(t, LAMBDA r : FloatEq(r["year"], Num(yr)))

Column(t, c) == [i \in DOMAIN t |-> t[i][c]]

PeerBounds(t) ==
  [inten \in IntensityNames |->
     [yr \in YearGroups(t) |-> iqr_bounds(Column(YearGroup(t, yr), inten))]]

\* bounds[inten_col].get(row["year"], (np.nan, np.nan))
BoundsGet(b, inten_col, year) ==
  IF ~isna(year) /\ Val(year) \in DOMAIN b[inten_col]
  THEN b[inten_col][Val(year)]
  ELSE <<NaN, NaN>>

\* prev_row: <<>> for None, <<row>> otherwise
PrevRow(t, i) ==
  IF i > 1 /\ FloatEq(t[i - 1]["asset_id"], t[i]["asset_id"])
  THEN <<t[i - 1]>>
  ELSE <<>>

----------------------------------------------------------------------------
(* src/src/validation.py: run_validation, the checks of one record *)

Accepted == Triple("ACCEPTED", "", <<>>)

\* Apply base checks first (can override)
ApplyBase(base) == IF base.status # "None" THEN base ELSE Accepted

\* Fault seeded for C8: a value on a fence counted as outside.
OutsideBounds_Inclusive(intensity, lo, hi) ==
  8 * Val(intensity) <= Val(lo) \/ 8 * Val(intensity) >= Val(hi)

\* intensity < lo or intensity > hi, the bounds being kept multiplied by 8
OutsideBounds(intensity, lo, hi) ==
  8 * Val(intensity) < Val(lo) \/ 8 * Val(intensity) > Val(hi)

\* Fault seeded for C9: the outlier check leaving the explanation as it was.
OutlierCheck_KeepsExplanation(cur, row, inten_col, intensity, lohi) ==
  IF /\ cur.status # "INVALID"
     /\ ~isna(intensity)
     /\ ~isna(lohi[1])
     /\ ~isna(lohi[2])
     /\ 8 * Val(intensity) < Val(lohi[1]) \/ 8 * Val(intensity) > Val(lohi[2])
  THEN Triple("FLAGGED", "OUTLIER_IQR_" \o upper(inten_col), cur.explanation)
  ELSE cur

\* IQR intensity outlier check
OutlierCheck(cur, row, inten_col, intensity, lohi) ==
  IF /\ cur.status # "INVALID"
     /\ ~isna(intensity)
     /\ ~isna(lohi[1])
     /\ ~isna(lohi[2])
     /\ OutsideBounds(intensity, lohi[1], lohi[2])
  THEN Triple("FLAGGED", "OUTLIER_IQR_" \o upper(inten_col),
              <<"outside IQR bounds", inten_col, Val(intensity),
                Val(lohi[1]), Val(lohi[2]), Val(row["year"])>>)
  ELSE cur

\* Fault seeded for C7: a change of exactly 100% not counted as a spike.
IsSpike_Strict(change) == ~isna(change) /\ Abs(change[1]) > change[2]

\* abs(change) >= 1.0
IsSpike(change) == ~isna(change) /\ Abs(change[1]) >= change[2]

\* Fault seeded for C3: the YoY check without its test for INVALID.
YoYCheck_NoInvalidGuard(cur, prev_row, inten_col, intensity) ==
  IF prev_row # <<>>
  THEN LET prev_intensity == Get(prev_row[1], inten_col)
           change == yoy_change(intensity, prev_intensity)
       IN  IF ~isna(change) /\ Abs(change[1]) >= change[2]
           THEN Triple("FLAGGED", "TREND_YOY_SPIKE_" \o upper(inten_col),
                       <<"YoY change", inten_col, change, prev_intensity, intensity>>)
           ELSE cur
  ELSE cur

\* YoY check (only if we have prev row)
YoYCheck(cur, prev_row, inten_col, intensity) ==
  IF cur.status # "INVALID" /\ prev_row # <<>>
  THEN LET prev_intensity == Get(prev_row[1], inten_col)
           change == yoy_change(intensity, prev_intensity)
       IN  IF IsSpike(change)
           THEN Triple("FLAGGED", "TREND_YOY_SPIKE_" \o upper(inten_col),
                       <<"YoY change", inten_col, change, prev_intensity, intensity>>)
           ELSE cur
  ELSE cur

\* occ_drop <= -0.2 and inten_change >= 0.5
OccupancyMismatch(occ_drop, inten_change) ==
  /\ 5 * occ_drop[1] <= -occ_drop[2]
  /\ 2 * inten_change[1] >= inten_change[2]

\* Optional occupancy logic (if column exists)
OccupancyCheck(cur, row, prev_row, inten_col, intensity) ==
  IF cur.status # "INVALID" /\ "occupancy_rate" \in DOMAIN row /\ prev_row # <<>>
  THEN LET occ_curr == Get(row, "occupancy_rate")
           occ_prev == Get(prev_row[1], "occupancy_rate")
           prev_intensity == Get(prev_row[1], inten_col)
           occ_drop == yoy_change(occ_curr, occ_prev)
           inten_change == yoy_change(intensity, prev_intensity)
       IN  IF /\ ~isna(occ_curr) /\ ~isna(occ_prev)
              /\ ~isna(intensity) /\ ~isna(prev_intensity)
              /\ ~isna(occ_drop) /\ ~isna(inten_change)
              /\ OccupancyMismatch(occ_drop, inten_change)
           THEN Triple("FLAGGED", "LOGIC_OCCUPANCY_INTENSITY_" \o upper(inten_col),
                       <<"Occupancy dropped", inten_col, occ_drop, inten_change>>)
           ELSE cur
  ELSE cur

\* Fault seeded for C2: FLAGGED mapped to the decision of INVALID.
Decision_FlaggedAsInvalid(status) ==
  IF status = "ACCEPTED" THEN "ACCEPT" ELSE "NEEDS_CORRECTION"

\* Decision mapping
Decision(status) ==
  IF status = "ACCEPTED" THEN "ACCEPT"
  ELSE IF status = "FLAGGED" THEN "NEEDS_EXPLANATION"
  ELSE "NEEDS_CORRECTION"

\* status, reason_code and explanation of the record of row i of t and metric
\* meta, after the four checks in the order of the code
Evaluate(t, b, i, meta) ==
  LET row       == t[i]
      prev_row  == PrevRow(t, i)
      inten_col == meta.intensity_name
      intensity == Get(row, inten_col)
      s0 == ApplyBase(base_checks(row))
      s1 == OutlierCheck(s0, row, inten_col, intensity,
                         BoundsGet(b, inten_col, row["year"]))
      s2 == YoYCheck(s1, prev_row, inten_col, intensity)
  IN  OccupancyCheck(s2, row, prev_row, inten_col, intensity)

\* the dictionary appended to results; int(row["year"]) needs a year
ResultRecord(t, b, i, meta) ==
  LET e == Evaluate(t, b, i, meta)
  IN  [asset_id    |-> t[i]["asset_id"],
       year        |-> Val(t[i]["year"]),
       metric      |-> meta.metric,
       value       |-> Get(t[i], meta.metric),
       intensity   |-> Get(t[i], meta.intensity_name),
       status      |-> e.status,
       reason_code |-> e.reason_code,
       explanation |-> e.explanation,
       decision    |-> Decision(e.status)]

----------------------------------------------------------------------------
(* Input tables *)

MkRow(a, y, f, e, g, w) ==
  [asset_id |-> a, year |-> y, floor_area_m2 |-> f,
   energy_kwh |-> e, ghg_tco2e |-> g, water_m3 |-> w]

WithOccupancy(r, o) ==
  [c \in DOMAIN r \cup {"occupancy_rate"} |-> IF c = "occupancy_rate" THEN o ELSE r[c]]

DropColumn(t, col) == [i \in DOMAIN t |-> [c \in DOMAIN t[i] \ {col} |-> t[i][c]]]

Cells(S) == {Num(v) : v \in S}

Areas == Cells(1 .. MaxArea)

\* One asset-year with any mix of missing, negative, zero and valid fields,
\* alone, after an earlier year of the same asset, or beside another asset.
\* The rows are given latest first: the sort has to reorder them.
QualityTables ==
  { <<MkRow(a, y, f, e, g, w)>> \o p :
      a \in {NaN, Num(1)}, y \in {NaN, Num(2)},
      f \in {NaN} \cup Cells(-1 .. MaxArea),
      e \in {NaN} \cup Cells({-1, 0, 2, 4}),
      g \in {NaN} \cup Cells({-1, 0, 1}),
      w \in {NaN} \cup Cells({-1, 1}),
      p \in { <<>>,
              <<MkRow(Num(1), Num(1), Num(MaxArea), Num(2), Num(1), Num(1))>>,
              <<MkRow(Num(0), Num(2), Num(1), Num(2), Num(1), Num(1))>> } }

\* Two consecutive years of one asset, valid fields, with an occupancy column.
TrendTables ==
  { << WithOccupancy(MkRow(Num(1), Num(1), f1, e1, Num(1), Num(1)), o1),
       WithOccupancy(MkRow(Num(1), Num(2), f2, e2, g2, w2), o2) >> :
      f1 \in Areas, e1 \in Cells({0, 100}), o1 \in {NaN} \cup Cells({0, 100}),
      f2 \in Areas, e2 \in Cells({0, 100, 150, 199, 200, 210}),
      g2 \in Cells({1, 2}), w2 \in Cells({1, 3}),
      o2 \in {NaN} \cup Cells({100, 81, 80}) }

\* The kinds of peer rows of a portfolio: year and water vary, water may be
\* missing; energy and emissions are the same for all peers.
PeerKinds ==
  << [year |-> Num(1), water_m3 |-> Num(1)],
     [year |-> Num(1), water_m3 |-> Num(8)],
     [year |-> Num(1), water_m3 |-> NaN],
     [year |-> Num(2), water_m3 |-> Num(1)] >>

\* the non-decreasing sequences of length n over lo..hi: one per multiset
RECURSIVE NonDecreasing(_, _, _)
NonDecreasing(n, lo, hi) ==
  IF n = 0 THEN {<<>>}
  ELSE UNION { { <<k>> \o s : s \in NonDecreasing(n - 1, k, hi) } : k \in lo .. hi }

\* peer i of n is asset i; the table lists the assets in descending order
PeerRows(ks) ==
  [i \in DOMAIN ks |->
     LET a == Len(ks) + 1 - i
         k == PeerKinds[ks[a]]
     IN  MkRow(Num(a), k.year, Num(1), Num(2), Num(1), k.water_m3)]

\* a second year of asset 1, appended to the peers
SecondYears ==
  { <<>> } \cup
  { <<MkRow(Num(1), Num(2), Num(1), Num(ew[1]), Num(1), Num(ew[2]))>> :
      ew \in { <<2, 1>>, <<3, 1>>, <<8, 1>>, <<2, 8>>, <<-8, 1>> } }

PortfolioTables ==
  { PeerRows(ks) \o x :
      ks \in UNION { NonDecreasing(n, 1, Len(PeerKinds)) : n \in MaxPeers - 1 .. MaxPeers },
      x \in SecondYears }

\* a valid table with one column left out
MissingColumnTables ==
  { DropColumn(<<MkRow(Num(1), Num(2), Num(1), Num(2), Num(1), Num(1)),
                 MkRow(Num(1), Num(1), Num(1), Num(2), Num(1), Num(1))>>, c) :
      c \in Range(required) }

InputTables == QualityTables \cup TrendTables \cup PortfolioTables \cup MissingColumnTables

----------------------------------------------------------------------------
(* run_validation as a state machine *)

Columns == DOMAIN df[1]

Init ==
  /\ df \in InputTables
  /\ bounds = <<>>
  /\ idx = 1
  /\ mi = 1
  /\ results = <<>>
  /\ pc = "compute_intensities"

\* df = compute_intensities(df)
ComputeIntensities ==
  /\ pc = "compute_intensities"
  /\ IntensityInputs \subseteq Columns
  /\ df' = compute_intensities(df)
  /\ pc' = "sort_values"
  /\ UNCHANGED <<bounds, idx, mi, results>>

\* r["energy_kwh"] and the like raise KeyError when the column is absent
ComputeIntensitiesKeyError ==
  /\ pc = "compute_intensities"
  /\ ~(IntensityInputs \subseteq Columns)
  /\ pc' = "raised"
  /\ UNCHANGED <<df, bounds, idx, mi, results>>

\* df = df.sort_values(["asset_id", "year"]).reset_index(drop=True)
SortValues ==
  /\ pc = "sort_values"
  /\ SortKeys \subseteq Columns
  /\ df' = sort_values(df)
  /\ pc' = "bounds"
  /\ UNCHANGED <<bounds, idx, mi, results>>

\* sort_values raises KeyError when a key column is absent
SortValuesKeyError ==
  /\ pc = "sort_values"
  /\ ~(SortKeys \subseteq Columns)
  /\ pc' = "raised"
  /\ UNCHANGED <<df, bounds, idx, mi, results>>

\* Precompute IQR bounds per year & metric intensity
PrecomputeBounds ==
  /\ pc = "bounds"
  /\ bounds' = PeerBounds(df)
  /\ pc' = "rows"
  /\ UNCHANGED <<df, idx, mi, results>>

\* one pass of the metric loop: the checks, the decision and results.append
AppendRecord ==
  /\ pc = "rows"
  /\ idx <= Len(df)
  /\ ~isna(df[idx]["year"])
  /\ results' = Append(results, ResultRecord(df, bounds, idx, METRICS[mi]))
  /\ IF mi < Len(METRICS)
     THEN mi' = mi + 1 /\ idx' = idx
     ELSE mi' = 1 /\ idx' = idx + 1
  /\ UNCHANGED <<df, bounds, pc>>

\* int(row["year"]) raises ValueError on a NaN year
AppendRecordValueError ==
  /\ pc = "rows"
  /\ idx <= Len(df)
  /\ isna(df[idx]["year"])
  /\ pc' = "raised"
  /\ UNCHANGED <<df, bounds, idx, mi, results>>

\* return pd.DataFrame(results)
Return ==
  /\ pc = "rows"
  /\ idx > Len(df)
  /\ pc' = "done"
  /\ UNCHANGED <<df, bounds, idx, mi, results>>

Next ==
  \/ ComputeIntensities
  \/ ComputeIntensitiesKeyError
  \/ SortValues
  \/ SortValuesKeyError
  \/ PrecomputeBounds
  \/ AppendRecord
  \/ AppendRecordValueError
  \/ Return

Spec == Init /\ [][Next]_vars

----------------------------------------------------------------------------
(* Vocabulary of the properties.  The properties speak of the records the  *)
(* run has produced when it ends (returned or raised); record k comes from *)
(* row RowIndexOf(k) of the sorted table and metric MetaOf(k).  The        *)
(* conditions of the checks are restated here from the arithmetic, not     *)
(* taken from the operators of the checks.                                 *)

Terminated == pc \in {"done", "raised"}

Records == IF Terminated THEN DOMAIN results ELSE {}

RowIndexOf(k) == ((k - 1) \div Len(METRICS)) + 1

RowOf(k) == df[RowIndexOf(k)]

MetaOf(k) == METRICS[((k - 1) % Len(METRICS)) + 1]

IntensityOf(k) == RowOf(k)[MetaOf(k).intensity_name]

AllRequiredColumns == Range(required) \subseteq Columns

\* some INVALID condition of the row-level checker holds for the row
InvalidCondition(row) ==
  \/ \E c \in Range(required) : c \notin DOMAIN row \/ isna(row[c])
  \/ /\ \A c \in Range(required) : c \in DOMAIN row /\ ~isna(row[c])
     /\ \/ \E c \in Range(nonNegative) : Val(row[c]) < 0
        \/ Val(row["floor_area_m2"]) <= 0

\* energy_kwh = 0 and ghg_tco2e > 0, the other fields valid
GhgWithZeroEnergyRow(row) ==
  /\ ~InvalidCondition(row)
  /\ Val(row["energy_kwh"]) = 0
  /\ Val(row["ghg_tco2e"]) > 0

\* the rows of the year of record k that have a value of its intensity
PeersOf(k) ==
  {j \in DOMAIN df : /\ FloatEq(df[j]["year"], RowOf(k)["year"])
                     /\ ~isna(df[j][MetaOf(k).intensity_name])}

\* Q1 - 1.5*IQR and Q3 + 1.5*IQR (times 8) of the values of PeersOf(k)
FenceOf(k) ==
  iqr_bounds(Column(SelectSeq(df, LAMBDA r : FloatEq(r["year"], RowOf(k)["year"])),
                    MetaOf(k).intensity_name))

BeyondFence(k) ==
  /\ Cardinality(PeersOf(k)) >= 8
  /\ ~isna(IntensityOf(k))
  /\ \/ 8 * Val(IntensityOf(k)) < Val(FenceOf(k)[1])
     \/ 8 * Val(IntensityOf(k)) > Val(FenceOf(k)[2])

HasPrevious(k) ==
  /\ RowIndexOf(k) > 1
  /\ FloatEq(df[RowIndexOf(k) - 1]["asset_id"], RowOf(k)["asset_id"])

PrevIntensityOf(k) == df[RowIndexOf(k) - 1][MetaOf(k).intensity_name]

\* the year-over-year change of the intensity is defined
ChangeDefined(k) ==
  /\ HasPrevious(k)
  /\ ~isna(IntensityOf(k))
  /\ ~isna(PrevIntensityOf(k))
  /\ Val(PrevIntensityOf(k)) # 0

\* ... and its absolute value is at least 1.0
SpikeCase(k) ==
  /\ ChangeDefined(k)
  /\ Abs(Val(IntensityOf(k)) - Val(PrevIntensityOf(k))) >= Abs(Val(PrevIntensityOf(k)))

\* occupancy fell by 20% or more while the intensity rose by 50% or more
OccupancyCase(k) ==
  /\ ChangeDefined(k)
  /\ "occupancy_rate" \in DOMAIN RowOf(k)
  /\ LET oc == RowOf(k)["occupancy_rate"]
         op == df[RowIndexOf(k) - 1]["occupancy_rate"]
     IN  /\ ~isna(oc) /\ ~isna(op) /\ Val(op) # 0
         /\ 5 * (Val(oc) - Val(op)) <= -Abs(Val(op))
         /\ 2 * (Val(IntensityOf(k)) - Val(PrevIntensityOf(k))) >= Abs(Val(PrevIntensityOf(k)))

OutlierCode(k) == "OUTLIER_IQR_" \o upper(MetaOf(k).intensity_name)

SpikeCode(k) == "TREND_YOY_SPIKE_" \o upper(MetaOf(k).intensity_name)

OccupancyCode(k) == "LOGIC_OCCUPANCY_INTENSITY_" \o upper(MetaOf(k).intensity_name)

OutlierCodes == {"OUTLIER_IQR_" \o upper(n) : n \in IntensityNames}

----------------------------------------------------------------------------
(* Properties *)

\* C1: when run_validation ends on a table that has all required columns,
\* it has produced exactly three records per input row, one per metric in
\* the order of METRICS, so the output has 3 times as many rows as the
\* input.  (Violated: a NaN year aborts the run, see C4.)
C1_ThreeRecordsPerRow ==
  (AllRequiredColumns /\ Terminated) =>
     /\ pc = "done"
     /\ Len(results) = 3 * Len(df)
     /\ \A k \in Records : /\ results[k].metric = MetaOf(k).metric
                           /\ results[k].asset_id = RowOf(k)["asset_id"]

\* C2: in every record the status is ACCEPTED, FLAGGED or INVALID and the
\* decision is ACCEPT, NEEDS_EXPLANATION or NEEDS_CORRECTION respectively.
C2_DecisionFromStatus ==
  \A k \in Records :
     \/ results[k].status = "ACCEPTED" /\ results[k].decision = "ACCEPT"
     \/ results[k].status = "FLAGGED"  /\ results[k].decision = "NEEDS_EXPLANATION"
     \/ results[k].status = "INVALID"  /\ results[k].decision = "NEEDS_CORRECTION"

\* C2 witness: a finished run whose records show all three statuses.
C2_Witness ==
  /\ pc = "done"
  /\ \A s \in {"ACCEPTED", "FLAGGED", "INVALID"} : \E k \in Records : results[k].status = s

OneFieldMissing(row) ==
  /\ Cardinality({c \in Range(required) : isna(row[c])}) = 1
  /\ \A c \in Range(nonNegative) : isna(row[c]) \/ Val(row[c]) > 0

\* C4: on a table that has all required columns and whose rows are valid or
\* have exactly one required field missing, run_validation never aborts.
\* (Violated: int(row["year"]) raises on a row whose year is NaN.)
C4_NeverAborts ==
  ( /\ AllRequiredColumns
    /\ \A i \in DOMAIN df : OneFieldMissing(df[i]) \/ ~InvalidCondition(df[i]) )
  => pc # "raised"

\* C5: when fewer than 8 rows of a year have a value of an intensity field,
\* both peer bounds of that year and field are undefined, and no record of
\* that year and metric has a reason code OUTLIER_IQR_*.
C5_SmallGroupNotFlagged ==
  /\ \A inten \in DOMAIN bounds : \A yr \in DOMAIN bounds[inten] :
        Cardinality({j \in DOMAIN df : /\ FloatEq(df[j]["year"], Num(yr))
                                       /\ ~isna(df[j][inten])}) < 8
           => bounds[inten][yr] = <<NaN, NaN>>
  /\ \A k \in Records :
        Cardinality(PeersOf(k)) < 8 => results[k].reason_code \notin OutlierCodes

\* C5 witness: in a year with exactly 7 water intensities, six of them 1 and
\* one 8 per m2, the record of the extreme one is out and ACCEPTED.
C5_Witness ==
  \E k \in Records :
     /\ MetaOf(k).metric = "water_m3"
     /\ Cardinality(PeersOf(k)) = 7
     /\ IntensityOf(k) = Num(8 * Scale)
     /\ Cardinality({j \in PeersOf(k) : df[j]["water_m3_per_m2"] = Num(Scale)}) = 6
     /\ results[k].status = "ACCEPTED"

C7_Original ==
  \A k \in Records :
     (base_checks(RowOf(k)) = NoIssue /\ SpikeCase(k)) =>
        /\ results[k].status = "FLAGGED"
        /\ results[k].reason_code = SpikeCode(k)

\* C7 as amended: such a record has status FLAGGED, and reason_code
\* TREND_YOY_SPIKE_<INTENSITY> unless the occupancy/intensity check matches
\* too, in which case the code is LOGIC_OCCUPANCY_INTENSITY_<INTENSITY>.
C7_SpikeUnlessOccupancy ==
  \A k \in Records :
     (base_checks(RowOf(k)).status # "INVALID" /\ SpikeCase(k)) =>
        /\ results[k].status = "FLAGGED"
        /\ results[k].reason_code =
             IF OccupancyCase(k) THEN OccupancyCode(k) ELSE SpikeCode(k)

\* C7 witness: energy intensity 100 then 210 per m2 for one asset, no
\* occupancy mismatch, the later record flagged with the spike code.
C7_Witness ==
  \E k \in Records :
     /\ MetaOf(k).metric = "energy_kwh"
     /\ HasPrevious(k)
     /\ PrevIntensityOf(k) = Num(100 * Scale)
     /\ IntensityOf(k) = Num(210 * Scale)
     /\ ~OccupancyCase(k)
     /\ results[k].status = "FLAGGED"
     /\ results[k].reason_code = "TREND_YOY_SPIKE_ENERGY_KWH_PER_M2"

\* C8: in a year with at least 8 values of an intensity field, a record
\* whose row passes base_checks and for which neither the spike nor the
\* occupancy check matches has status FLAGGED and reason_code
\* OUTLIER_IQR_<INTENSITY> exactly when its intensity is strictly below
\* Q1 - 1.5*IQR or strictly above Q3 + 1.5*IQR of the values of that year;
\* otherwise it is ACCEPTED with an empty reason_code.
C8_OutlierIffBeyondFence ==
  \A k \in Records :
     ( /\ Cardinality(PeersOf(k)) >= 8
       /\ base_checks(RowOf(k)) = NoIssue
       /\ ~SpikeCase(k)
       /\ ~OccupancyCase(k) ) =>
        IF BeyondFence(k)
        THEN results[k].status = "FLAGGED" /\ results[k].reason_code = OutlierCode(k)
        ELSE results[k].status = "ACCEPTED" /\ results[k].reason_code = ""

\* C8 witness: a finished run with a year of at least 8 water intensities in
\* which one record lies beyond the upper fence and is flagged, one lies
\* on a fence and is ACCEPTED, and a row of another year has a different
\* water intensity.
C8_Witness ==
  /\ pc = "done"
  /\ \E k1, k2 \in Records :
        /\ MetaOf(k1).metric = "water_m3" /\ MetaOf(k2).metric = "water_m3"
        /\ RowOf(k1)["year"] = RowOf(k2)["year"]
        /\ Cardinality(PeersOf(k1)) >= 8
        /\ base_checks(RowOf(k1)) = NoIssue /\ base_checks(RowOf(k2)) = NoIssue
        /\ BeyondFence(k1)
        /\ results[k1].reason_code = "OUTLIER_IQR_WATER_M3_PER_M2"
        /\ 8 * Val(IntensityOf(k2)) = Val(FenceOf(k2)[2])
        /\ results[k2].status = "ACCEPTED"
        /\ \E j \in DOMAIN df :
              /\ ~isna(df[j]["year"]) /\ df[j]["year"] # RowOf(k1)["year"]
              /\ ~isna(df[j]["water_m3_per_m2"])
              /\ df[j]["water_m3_per_m2"] # IntensityOf(k2)

\* the explanation was built by the check that set the reason code
SameCheck(code, expl, inten_col) ==
  CASE code = "" -> expl = <<>>
    [] code = "DQ_MISSING_FIELDS" -> expl # <<>> /\ expl[1] = "Missing required fields"
    [] code = "DQ_NEGATIVE_VALUE" -> expl # <<>> /\ expl[1] = "is negative"
    [] code = "DQ_INVALID_FLOOR_AREA" -> expl # <<>> /\ expl[1] = "floor_area_m2 must be > 0"
    [] code = "LOGIC_GHG_WITH_ZERO_ENERGY" -> expl = <<"GHG > 0 while energy is 0">>
    [] code = "LOGIC_ZERO_GHG_WITH_ENERGY" -> expl = <<"Energy > 0 while GHG is 0">>
    [] code = "OUTLIER_IQR_" \o upper(inten_col) ->
         expl # <<>> /\ expl[1] = "outside IQR bounds" /\ expl[2] = inten_col
    [] code = "TREND_YOY_SPIKE_" \o upper(inten_col) ->
         expl # <<>> /\ expl[1] = "YoY change" /\ expl[2] = inten_col
    [] code = "LOGIC_OCCUPANCY_INTENSITY_" \o upper(inten_col) ->
         expl # <<>> /\ expl[1] = "Occupancy dropped" /\ expl[2] = inten_col
    [] OTHER -> FALSE

\* C9: in every record reason_code and explanation are both empty exactly
\* when the status is ACCEPTED, a FLAGGED or INVALID record has both
\* non-empty, and the explanation is the one of the check whose reason code
\* the record carries.
C9_OneReasonPair ==
  \A k \in Records :
     /\ results[k].status \in {"ACCEPTED", "FLAGGED", "INVALID"}
     /\ (results[k].status = "ACCEPTED") <=> (results[k].reason_code = "")
     /\ (results[k].status = "ACCEPTED") <=> (results[k].explanation = <<>>)
     /\ SameCheck(results[k].reason_code, results[k].explanation, MetaOf(k).intensity_name)

\* C9 witness: a finished run with an ACCEPTED record, an INVALID record,
\* and a record for which both the outlier and the spike check match and
\* that carries the code and the explanation of the spike check.
C9_Witness ==
  /\ pc = "done"
  /\ \E k \in Records : results[k].status = "ACCEPTED"
  /\ \E k \in Records : results[k].status = "INVALID"
  /\ \E k \in Records :
        /\ BeyondFence(k)
        /\ SpikeCase(k)
        /\ results[k].reason_code = SpikeCode(k)
        /\ results[k].explanation[1] = "YoY change"

\* C10: every record of a row for which an INVALID condition of the
\* row-level checker holds (a required field missing, a negative value, or
\* floor_area_m2 <= 0) has status INVALID.  (Violated: base_checks tests
\* the two logic conditions before the floor area.)
C10_InvalidBeforeFlagged ==
  \A k \in Records : InvalidCondition(RowOf(k)) => results[k].status = "INVALID"

====
